---- MODULE Spec2Model ----
(***************************************************************************)
(* The BulkPaymentFeature Lightning Web Component                          *)
(* (force-app/main/default/lwc/bulkPaymentFeature/bulkPaymentFeature.js,   *)
(* the current revision, lines 1-424) as a state machine.                  *)
(*                                                                         *)
(* One action is one run of JavaScript that the event loop cannot          *)
(* interleave with another: a lifecycle hook or event handler up to its    *)
(* first suspension, or the continuation of a promise (an Apex call        *)
(* resolving or rejecting, a LightningAlert being closed, a timer firing). *)
(* `await` of a value that is no promise (line 360) resumes in a microtask *)
(* of the same task, before any other handler, so it does not split an     *)
(* action.                                                                 *)
(*                                                                         *)
(* Amounts are whole cents.  An absent (null/undefined) field of a record  *)
(* is the empty sequence <<>>, a present one the one-element sequence.     *)
(***************************************************************************)
EXTENDS Integers, Sequences, FiniteSets, TLC

VARIABLES
    recordIds,          \* @api recordIds: <<>> (absent/empty, falsy) or the list of ids
    invoiceRecords,     \* @track invoiceRecords
    selectedRows,       \* @track selectedRows
    paymentDate,        \* @track paymentDate
    bankAccount,        \* @track bankAccount
    exchangeRate,       \* @track exchangeRate
    paymentReference,   \* @track paymentReference
    bankAccountOptions, \* @track bankAccountOptions
    invoiceType,        \* @track invoiceType: "", "Purchase" or "Sales"
    invoiceInfo,        \* @track invoiceInfo: [apiName |-> ...]
    isLoading,          \* @track isLoading
    phase,              \* "constructed" before connectedCallback, "connected" after
    bankPc,             \* the getBankAccounts() promise chain
    loadPc,             \* the getInvoiceType -> loadInvoiceDetails promise chain
    startAlertPc,       \* the showAlertAndReturn started by checkRecordsIsSelected
    payThreads,         \* suspended handlePay() calls: how many stand at each await
    timers,             \* pending setTimeout(() => this.handleCancel(), 300), in order
    nav,                \* window.location.replace calls performed: sequence of URLs
    loadResult,         \* <<>> or <<the list the invoice fetch resolved with>>
    effects             \* what the last run did to the outside: Apex calls,
                        \* alerts opened, navigation, an uncaught error; in order

formVars == <<paymentDate, bankAccount, exchangeRate, paymentReference>>
dataVars == <<invoiceRecords, selectedRows, invoiceType, invoiceInfo, bankAccountOptions>>
loadVars == <<bankPc, loadPc, startAlertPc, loadResult>>
vars == <<recordIds, formVars, dataVars, isLoading, phase, loadVars, payThreads,
          timers, nav, effects>>

-----------------------------------------------------------------------------
(* Bounds of the model *)

\* Invoices the backend may return are drawn from ids 1..MaxInvoices.
MaxInvoices == 3
\* At most MaxPays handlePay() calls are suspended, or have the timer of their
\* success alert pending, at a time.
MaxPays == 2

-----------------------------------------------------------------------------
(* The backend's data, as far as the component reads it *)

InvoiceIds == 1..MaxInvoices

\* natdev24__Balance_Outstanding__c of invoice i, in cents; invoice 2 has none.
BalanceOf(i) == IF i = 2 THEN <<>> ELSE <<1005 * i + 45>>
\* natdev24__Currency__r.Name of invoice i; invoice 4 has no currency relation.
CurrencyOf(i) == IF i = 4 THEN <<>> ELSE IF i % 3 = 0 THEN <<"EUR">> ELSE <<"USD">>
\* natdev24__Account__r.Name of invoice i; even invoices have no account relation.
AccountOf(i) == IF i % 2 = 0 THEN <<>> ELSE <<"Acme">>

\* A record as get*InvoiceDetails returns it.
Invoice(i) == [Id |-> i, balance |-> BalanceOf(i), currency |-> CurrencyOf(i),
               account |-> AccountOf(i)]

RECURSIVE SeqOfSet(_)
SeqOfSet(S) ==
    IF S = {} THEN <<>>
    ELSE LET m == CHOOSE x \in S : \A y \in S : x <= y
         IN <<m>> \o SeqOfSet(S \ {m})

\* A record whose natdev24__Currency__c lookup is empty: the backend leaves
\* the natdev24__Currency__r relation out of it.
NoCurrency(inv) == [inv EXCEPT !.currency = <<>>]

\* The lists an invoice fetch may resolve with: the requested invoices that
\* the backend keeps, in order, and invoice 1 alone without its currency.
FetchResults ==
    { [k \in 1..Cardinality(S) |-> Invoice(SeqOfSet(S)[k])] : S \in SUBSET InvoiceIds }
        \cup {<<NoCurrency(Invoice(1))>>}

PurchaseApiName == "natdev24__Purchase_Invoice_Header__c"
SalesApiName    == "natdev24__Sales_Invoice_Header__c"
OtherApiName    == "Account"
UndefinedName   == "undefined"

\* The API names getInvoiceType may resolve with.
ApiNames == {PurchaseApiName, SalesApiName, OtherApiName}

\* String.prototype.includes on the API names above.
Includes(apiName, token) ==
    \/ apiName = PurchaseApiName /\ token = "Purchase_Invoice"
    \/ apiName = SalesApiName /\ token = "Sales_Invoice"

FieldNames == {"paymentDate", "bankAccount", "exchangeRate", "paymentReference"}
FieldValues == {"", "x"}

\* The account lists getBankAccounts may resolve with.
BankAccountResults == {<<[Name |-> "Bank", Id |-> "x"]>>}

MsgNoInvoices == "Select Invoices with Outstanding Balance"
MsgCurrency   == "Select Invoices with same Currency"
MsgMandatory  == "Please fill all mandatory payment details."
MsgSuccess    == "Selected Invoices are paid with Outstanding Amount"
MsgProcessing == "An error occurred while processing payments."
Messages == {MsgNoInvoices, MsgCurrency, MsgMandatory, MsgSuccess, MsgProcessing}

PayPcs == {"awaitResult", "alertMandatory", "alertSuccess", "alertProcessing"}

-----------------------------------------------------------------------------
(* Array helpers *)

Range(s) == { s[k] : k \in DOMAIN s }

\* Array.prototype.includes
ArrIncludes(s, x) == \E k \in DOMAIN s : s[k] = x

\* Array.prototype.map(inv => inv.Id)
MapId(recs) == [k \in DOMAIN recs |-> recs[k].Id]

\* Mutant of Filter: the selection is ignored, every record is kept.
FilterKeepsAll(recs, sel) == recs

RECURSIVE Filter(_, _)
\* Array.prototype.filter(inv => sel.includes(inv.Id))
Filter(recs, sel) ==
    IF recs = <<>> THEN <<>>
    ELSE (IF ArrIncludes(sel, Head(recs).Id) THEN <<Head(recs)>> ELSE <<>>)
         \o Filter(Tail(recs), sel)

\* inv.natdev24__Balance_Outstanding__c || 0
BalanceOr0(inv) == IF inv.balance = <<>> THEN 0 ELSE inv.balance[1]

RECURSIVE Reduce(_, _)
\* Array.prototype.reduce((sum, inv) => sum + (balance || 0), sum)
Reduce(recs, sum) ==
    IF recs = <<>> THEN sum
    ELSE Reduce(Tail(recs), sum + BalanceOr0(Head(recs)))

DigitChars == <<"0", "1", "2", "3", "4", "5", "6", "7", "8", "9">>
Digit(d) == DigitChars[d + 1]

RECURSIVE IntDigits(_)
IntDigits(n) ==
    IF n < 10 THEN <<Digit(n)>>
    ELSE IntDigits(n \div 10) \o <<Digit(n % 10)>>

\* Number.prototype.toFixed(2) of a non-negative amount of `cents` cents: the
\* string, as its sequence of characters.
ToFixed2(cents) ==
    IntDigits(cents \div 100) \o <<".">>
        \o <<Digit((cents \div 10) % 10), Digit(cents % 10)>>

\* get totalAmount()
TotalAmountOf(recs, sel) == ToFixed2(Reduce(Filter(recs, sel), 0))

totalAmount == TotalAmountOf(invoiceRecords, selectedRows)

-----------------------------------------------------------------------------
(* What a run does to the outside *)

\* An imported Apex method is invoked.
Apex(name, params) == [kind |-> "apex", name |-> name, params |-> params]
\* LightningAlert.open({message, theme, label})
Alert(label, message, theme) ==
    [kind |-> "alert", label |-> label, message |-> message, theme |-> theme]
\* window.location.replace(url)
Navigate(url) == [kind |-> "navigate", url |-> url]
\* An error nothing catches.
Uncaught(error) == [kind |-> "uncaught", error |-> error]

PayMethods == {"processPurchaseInvoiceBulkPayment", "processSalesInvoiceBulkPayment"}
FetchMethods == {"getPurchaseInvoiceDetails", "getSalesInvoiceDetails"}

-----------------------------------------------------------------------------
(* Helpers of the component *)

\* Mutant of getApexControllerMethodForGetDetails: the purchase fetch is the
\* default, as in the component's first revision.
GetDetailsDefaultPurchase(type) ==
    IF type = "Sales" THEN <<"getSalesInvoiceDetails">>
    ELSE <<"getPurchaseInvoiceDetails">>

\* getApexControllerMethodForGetDetails(); <<>> is null
getApexControllerMethodForGetDetails(type) ==
    IF type = "Purchase" THEN <<"getPurchaseInvoiceDetails">>
    ELSE IF type = "Sales" THEN <<"getSalesInvoiceDetails">>
    ELSE <<>>

\* getApexControllerMethodForProcessBulkPayment(); <<>> is null
getApexControllerMethodForProcessBulkPayment(type) ==
    IF type = "Purchase" THEN <<"processPurchaseInvoiceBulkPayment">>
    ELSE IF type = "Sales" THEN <<"processSalesInvoiceBulkPayment">>
    ELSE <<>>

\* The invoiceType that getInvoiceType's then-callback leaves, given the old one.
ClassifyType(apiName, old) ==
    IF Includes(apiName, "Purchase_Invoice") THEN "Purchase"
    ELSE IF Includes(apiName, "Sales_Invoice") THEN "Sales"
    ELSE old

\* result.map(invoice => ({...invoice, accountName: invoice.natdev24__Account__r?.Name || ''}))
WithAccountName(result) ==
    [k \in DOMAIN result |->
        [Id |-> result[k].Id, balance |-> result[k].balance,
         currency |-> result[k].currency, account |-> result[k].account,
         accountName |-> IF result[k].account = <<>> THEN ""
                         ELSE result[k].account[1]]]

\* Mutant of Preselect: the requested identifiers are selected, whether the
\* fetch returned them or not.
PreselectRequested(recs) == recordIds

\* Mutant of Preselect: the first returned record is left out.
PreselectButFirst(recs) == IF recs = <<>> THEN <<>> ELSE Tail(MapId(recs))

\* this.selectedRows = this.invoiceRecords.map(inv => inv.Id)
Preselect(recs) == MapId(recs)

\* new Set(this.invoiceRecords.map(inv => inv.natdev24__Currency__r.Name))
Currencies(recs) == { recs[k].currency[1] : k \in DOMAIN recs }

\* Where the fetch's then-callback stands after the code from line 267 on has
\* run over `recs`: reading .Name of an absent currency relation throws, which
\* the chain's catch handles; more than one currency opens the alert.
CurrencyStep(recs) ==
    IF \E k \in DOMAIN recs : recs[k].currency = <<>> THEN "threw"
    ELSE IF Cardinality(Currencies(recs)) > 1 THEN "alertCurrency"
    ELSE "done"

\* The alert that step opens, if any.
CurrencyAlert(pc) ==
    IF pc = "alertCurrency" THEN <<Alert("Error", MsgCurrency, "error")>> ELSE <<>>

\* `/lightning/o/${apiName}/list?filterName=Recent`
ListViewUrl(apiName) == <<"/lightning/o/", apiName, "/list?filterName=Recent">>

\* Mutant of FieldMissing: only paymentDate and bankAccount are checked.
FieldMissingDateOrBank == paymentDate = "" \/ bankAccount = ""

\* !this.paymentDate || !this.bankAccount || !this.exchangeRate || !this.paymentReference
FieldMissing ==
    paymentDate = "" \/ bankAccount = "" \/ exchangeRate = "" \/ paymentReference = ""

\* Mutant of PayParams: the total is that of all loaded invoices.
PayParamsTotalOfAll ==
    [exchangeRate |-> exchangeRate,
     selectedNominalCode |-> bankAccount,
     totalInvoiceAmount |-> ToFixed2(Reduce(invoiceRecords, 0)),
     postingDate |-> paymentDate,
     reference |-> paymentReference,
     headerKey |-> IF invoiceType = "Purchase" THEN "piHeaderList"
                   ELSE IF invoiceType = "Sales" THEN "siHeaderList" ELSE "",
     headerList |-> Filter(invoiceRecords, selectedRows)]

\* The params object handlePay hands to the payment procedure (lines 330-366).
PayParams ==
    [exchangeRate |-> exchangeRate,
     selectedNominalCode |-> bankAccount,
     totalInvoiceAmount |-> totalAmount,
     postingDate |-> paymentDate,
     reference |-> paymentReference,
     headerKey |-> IF invoiceType = "Purchase" THEN "piHeaderList"
                   ELSE IF invoiceType = "Sales" THEN "siHeaderList" ELSE "",
     headerList |-> Filter(invoiceRecords, selectedRows)]

\* Number of handlePay() calls that are suspended.
Suspended ==
    payThreads["awaitResult"] + payThreads["alertMandatory"]
        + payThreads["alertSuccess"] + payThreads["alertProcessing"]

\* Number of pending timers that a success alert of handlePay() set.
PendingReturns == Len(SelectSeq(timers, LAMBDA origin : origin = "success"))

\* A LightningAlert modal is open.
AlertOpen ==
    \/ startAlertPc = "open"
    \/ loadPc \in {"alertNoInvoices", "alertCurrency"}
    \/ payThreads["alertMandatory"] + payThreads["alertSuccess"]
           + payThreads["alertProcessing"] > 0

\* The component is rendered and the page has not been replaced.
Alive == phase = "connected" /\ nav = <<>>

\* The user can reach the component's controls: no modal covers them.
UserCanAct == Alive /\ ~AlertOpen

\* handleCancel(): `url = ...` assigns to an identifier that is declared nowhere.
\* The file is module code, hence strict: the assignment throws a ReferenceError
\* unless the global object happens to hold a property `url`, and then
\* window.location.replace(url) is never reached.
handleCancel ==
    \E urlGlobal \in BOOLEAN :
        IF urlGlobal
        THEN /\ nav' = Append(nav, ListViewUrl(invoiceInfo.apiName))
             /\ effects' = <<Navigate(ListViewUrl(invoiceInfo.apiName))>>
        ELSE /\ nav' = nav
             /\ effects' = <<Uncaught("ReferenceError")>>

-----------------------------------------------------------------------------
(* Initial state: the component as constructed, before connectedCallback *)

Init ==
    /\ recordIds \in {<<>>, SeqOfSet(InvoiceIds)}
    /\ invoiceRecords = <<>>
    /\ selectedRows = <<>>
    /\ paymentDate = ""
    /\ bankAccount = ""
    /\ exchangeRate = ""
    /\ paymentReference = ""
    /\ bankAccountOptions = <<>>
    /\ invoiceType = ""
    /\ invoiceInfo = [apiName |-> UndefinedName]
    /\ isLoading = FALSE
    /\ phase = "constructed"
    /\ bankPc = "idle"
    /\ loadPc = "idle"
    /\ startAlertPc = "none"
    /\ payThreads = [pc \in PayPcs |-> 0]
    /\ timers = <<>>
    /\ nav = <<>>
    /\ loadResult = <<>>
    /\ effects = <<>>

-----------------------------------------------------------------------------
(* Startup *)

\* connectedCallback(): checkRecordsIsSelected(), loadBankAccounts() and, when
\* recordIds is truthy, getObjectTypeAndLoadInvoiceDetails().
connectedCallback ==
    /\ phase = "constructed"
    /\ phase' = "connected"
    /\ bankPc' = "pending"
    /\ IF recordIds = <<>>
       THEN /\ startAlertPc' = "open"
            /\ loadPc' = "idle"
            /\ effects' = <<Alert("Error", MsgNoInvoices, "error"),
                            Apex("getBankAccounts", <<>>)>>
       ELSE /\ startAlertPc' = "none"
            /\ loadPc' = "typePending"
            /\ effects' = <<Apex("getBankAccounts", <<>>),
                            Apex("getInvoiceType", [recordId |-> recordIds[1]])>>
    /\ UNCHANGED <<recordIds, formVars, dataVars, isLoading, loadResult, payThreads,
                   timers, nav>>

\* loadBankAccounts(): getBankAccounts() resolves with `accounts`.
loadBankAccountsThen(accounts) ==
    /\ Alive /\ bankPc = "pending"
    /\ bankAccountOptions' =
           [k \in DOMAIN accounts |->
               [label |-> accounts[k].Name, value |-> accounts[k].Id]]
    /\ bankPc' = "done"
    /\ effects' = <<>>
    /\ UNCHANGED <<recordIds, formVars, invoiceRecords, selectedRows, invoiceType,
                   invoiceInfo, isLoading, phase, loadPc, startAlertPc, loadResult,
                   payThreads, timers, nav>>

\* loadBankAccounts(): getBankAccounts() rejects.
loadBankAccountsCatch ==
    /\ Alive /\ bankPc = "pending"
    /\ bankPc' = "failed"
    /\ effects' = <<>>
    /\ UNCHANGED <<recordIds, formVars, dataVars, isLoading, phase, loadPc,
                   startAlertPc, loadResult, payThreads, timers, nav>>

\* showAlertAndReturn of checkRecordsIsSelected: the alert is closed, the
\* timer for handleCancel is set.
startAlertClosed ==
    /\ Alive /\ startAlertPc = "open"
    /\ startAlertPc' = "closed"
    /\ timers' = Append(timers, "noIds")
    /\ effects' = <<>>
    /\ UNCHANGED <<recordIds, formVars, dataVars, isLoading, phase, bankPc, loadPc,
                   loadResult, payThreads, nav>>

\* getObjectTypeAndLoadInvoiceDetails(): getInvoiceType resolves with
\* {apiName}; the callback sets the type and calls loadInvoiceDetails, which
\* returns early without a fetch method and otherwise issues the fetch.
getInvoiceTypeThen(apiName) ==
    /\ Alive /\ loadPc = "typePending"
    /\ invoiceInfo' = [apiName |-> apiName]
    /\ invoiceType' = ClassifyType(apiName, invoiceType)
    /\ LET method == getApexControllerMethodForGetDetails(invoiceType')
       IN IF method = <<>>
          THEN /\ loadPc' = "skipped"
               /\ isLoading' = isLoading
               /\ effects' = <<>>
          ELSE /\ isLoading' = TRUE
               /\ loadPc' = "fetchPending"
               /\ effects' = <<Apex(method[1], [invoiceIds |-> recordIds])>>
    /\ UNCHANGED <<recordIds, formVars, invoiceRecords, selectedRows,
                   bankAccountOptions, phase, bankPc, startAlertPc, loadResult,
                   payThreads, timers, nav>>

\* getInvoiceType rejects.
getInvoiceTypeCatch ==
    /\ Alive /\ loadPc = "typePending"
    /\ loadPc' = "typeFailed"
    /\ effects' = <<>>
    /\ UNCHANGED <<recordIds, formVars, dataVars, isLoading, phase, bankPc,
                   startAlertPc, loadResult, payThreads, timers, nav>>

-----------------------------------------------------------------------------
(* loadInvoiceDetails *)

\* The fetch resolves with `result`: the then-callback up to its first await
\* that suspends, or to its end (an error thrown in it goes to the catch).
loadInvoiceDetailsThen(result) ==
    /\ Alive /\ loadPc = "fetchPending"
    /\ invoiceRecords' = WithAccountName(result)
    /\ selectedRows' = Preselect(invoiceRecords')
    /\ isLoading' = FALSE
    /\ loadResult' = <<result>>
    /\ IF Len(invoiceRecords') = 0
       THEN /\ loadPc' = "alertNoInvoices"
            /\ effects' = <<Alert("Error", MsgNoInvoices, "error")>>
       ELSE /\ loadPc' = CurrencyStep(invoiceRecords')
            /\ effects' = CurrencyAlert(loadPc')
    /\ UNCHANGED <<recordIds, formVars, invoiceType, invoiceInfo,
                   bankAccountOptions, phase, bankPc, startAlertPc, payThreads,
                   timers, nav>>

\* The fetch rejects: the chain's catch.
loadInvoiceDetailsCatch ==
    /\ Alive /\ loadPc = "fetchPending"
    /\ isLoading' = FALSE
    /\ loadPc' = "rejected"
    /\ effects' = <<>>
    /\ UNCHANGED <<recordIds, formVars, dataVars, phase, bankPc, startAlertPc,
                   loadResult, payThreads, timers, nav>>

\* The no-invoices alert is closed: showAlertAndReturn sets its timer and the
\* callback goes on with the currency check.
noInvoicesAlertClosed ==
    /\ Alive /\ loadPc = "alertNoInvoices"
    /\ timers' = Append(timers, "noInvoices")
    /\ loadPc' = CurrencyStep(invoiceRecords)
    /\ effects' = CurrencyAlert(loadPc')
    /\ isLoading' = IF loadPc' = "threw" THEN FALSE ELSE isLoading
    /\ UNCHANGED <<recordIds, formVars, dataVars, phase, bankPc, startAlertPc,
                   loadResult, payThreads, nav>>

\* The currency alert is closed: showAlertAndReturn sets its timer.
currencyAlertClosed ==
    /\ Alive /\ loadPc = "alertCurrency"
    /\ timers' = Append(timers, "currency")
    /\ loadPc' = "done"
    /\ effects' = <<>>
    /\ UNCHANGED <<recordIds, formVars, dataVars, isLoading, phase, bankPc,
                   startAlertPc, loadResult, payThreads, nav>>

-----------------------------------------------------------------------------
(* User events *)

\* The rows a selection event of the datatable can carry: the rows of its
\* data at the indices S, in table order.
RowsAt(recs, S) == [k \in 1..Cardinality(S) |-> recs[SeqOfSet(S)[k]]]

\* handleRowSelection(event), event.detail.selectedRows = rows
handleRowSelection(rows) ==
    /\ UserCanAct
    /\ selectedRows' = MapId(rows)
    /\ effects' = <<>>
    /\ UNCHANGED <<recordIds, formVars, invoiceRecords, invoiceType, invoiceInfo,
                   bankAccountOptions, isLoading, phase, loadVars, payThreads,
                   timers, nav>>

\* handlePaymentFieldChange(event): this[field] = value, for the four inputs
\* of the form.
handlePaymentFieldChange(field, value) ==
    /\ UserCanAct
    /\ paymentDate' = IF field = "paymentDate" THEN value ELSE paymentDate
    /\ bankAccount' = IF field = "bankAccount" THEN value ELSE bankAccount
    /\ exchangeRate' = IF field = "exchangeRate" THEN value ELSE exchangeRate
    /\ paymentReference' =
           IF field = "paymentReference" THEN value ELSE paymentReference
    /\ effects' = <<>>
    /\ UNCHANGED <<recordIds, dataVars, isLoading, phase, loadVars, payThreads,
                   timers, nav>>

\* The Cancel button: handleCancel().
cancelClicked ==
    /\ UserCanAct
    /\ handleCancel
    /\ UNCHANGED <<recordIds, formVars, dataVars, isLoading, phase, loadVars,
                   payThreads, timers>>

\* A timer of showAlertAndReturn fires: handleCancel().
timerFired ==
    /\ Alive /\ timers # <<>>
    /\ timers' = Tail(timers)
    /\ handleCancel
    /\ UNCHANGED <<recordIds, formVars, dataVars, isLoading, phase, loadVars,
                   payThreads>>

-----------------------------------------------------------------------------
(* handlePay *)

\* handlePay() from its call to its first suspension: the validation alert,
\* the payment procedure's call, or the alert of the catch block when calling
\* the null procedure throws.
handlePay ==
    /\ UserCanAct /\ Suspended + PendingReturns < MaxPays
    /\ isLoading' = TRUE
    /\ IF FieldMissing
       THEN /\ effects' = <<Alert("Error", MsgMandatory, "error")>>
            /\ payThreads' = [payThreads EXCEPT !["alertMandatory"] = @ + 1]
       ELSE LET method == getApexControllerMethodForProcessBulkPayment(invoiceType)
            IN IF method = <<>>
               THEN /\ effects' = <<Alert("Error", MsgProcessing, "error")>>
                    /\ payThreads' = [payThreads EXCEPT !["alertProcessing"] = @ + 1]
               ELSE /\ effects' = <<Apex(method[1], PayParams)>>
                    /\ payThreads' = [payThreads EXCEPT !["awaitResult"] = @ + 1]
    /\ UNCHANGED <<recordIds, formVars, dataVars, phase, loadVars, timers, nav>>

\* The payment procedure resolves with a truthy result: the success alert opens.
payResolvedTruthy ==
    /\ Alive /\ payThreads["awaitResult"] > 0
    /\ payThreads' = [payThreads EXCEPT !["awaitResult"] = @ - 1,
                                        !["alertSuccess"] = @ + 1]
    /\ effects' = <<Alert("Success", MsgSuccess, "success")>>
    /\ UNCHANGED <<recordIds, formVars, dataVars, isLoading, phase, loadVars,
                   timers, nav>>

\* Mutant of payResolvedFalsy: the call ends without a finally block.
payResolvedFalsyNoFinally ==
    /\ Alive /\ payThreads["awaitResult"] > 0
    /\ payThreads' = [payThreads EXCEPT !["awaitResult"] = @ - 1]
    /\ effects' = <<>>
    /\ UNCHANGED <<recordIds, formVars, dataVars, isLoading, phase, loadVars,
                   timers, nav>>

\* The payment procedure resolves with a falsy result: `if (result)` is
\* skipped and the finally block ends the call.
payResolvedFalsy ==
    /\ Alive /\ payThreads["awaitResult"] > 0
    /\ payThreads' = [payThreads EXCEPT !["awaitResult"] = @ - 1]
    /\ isLoading' = FALSE
    /\ effects' = <<>>
    /\ UNCHANGED <<recordIds, formVars, dataVars, phase, loadVars, timers, nav>>

\* The payment procedure rejects: the catch block opens the error alert.
payRejected ==
    /\ Alive /\ payThreads["awaitResult"] > 0
    /\ payThreads' = [payThreads EXCEPT !["awaitResult"] = @ - 1,
                                        !["alertProcessing"] = @ + 1]
    /\ effects' = <<Alert("Error", MsgProcessing, "error")>>
    /\ UNCHANGED <<recordIds, formVars, dataVars, isLoading, phase, loadVars,
                   timers, nav>>

\* The validation alert is closed: `return`, then the finally block.
mandatoryAlertClosed ==
    /\ Alive /\ payThreads["alertMandatory"] > 0
    /\ payThreads' = [payThreads EXCEPT !["alertMandatory"] = @ - 1]
    /\ isLoading' = FALSE
    /\ effects' = <<>>
    /\ UNCHANGED <<recordIds, formVars, dataVars, phase, loadVars, timers, nav>>

\* The success alert is closed: showAlertAndReturn sets its timer, then the
\* finally block.
successAlertClosed ==
    /\ Alive /\ payThreads["alertSuccess"] > 0
    /\ payThreads' = [payThreads EXCEPT !["alertSuccess"] = @ - 1]
    /\ timers' = Append(timers, "success")
    /\ isLoading' = FALSE
    /\ effects' = <<>>
    /\ UNCHANGED <<recordIds, formVars, dataVars, phase, loadVars, nav>>

\* The error alert of the catch block is closed: the finally block.
processingAlertClosed ==
    /\ Alive /\ payThreads["alertProcessing"] > 0
    /\ payThreads' = [payThreads EXCEPT !["alertProcessing"] = @ - 1]
    /\ isLoading' = FALSE
    /\ effects' = <<>>
    /\ UNCHANGED <<recordIds, formVars, dataVars, phase, loadVars, timers, nav>>

-----------------------------------------------------------------------------
(* The component *)

Next ==
    \/ connectedCallback
    \/ \E accounts \in BankAccountResults : loadBankAccountsThen(accounts)
    \/ loadBankAccountsCatch
    \/ startAlertClosed
    \/ \E apiName \in ApiNames : getInvoiceTypeThen(apiName)
    \/ getInvoiceTypeCatch
    \/ \E result \in FetchResults : loadInvoiceDetailsThen(result)
    \/ loadInvoiceDetailsCatch
    \/ noInvoicesAlertClosed
    \/ currencyAlertClosed
    \/ \E S \in SUBSET DOMAIN invoiceRecords :
           handleRowSelection(RowsAt(invoiceRecords, S))
    \/ \E field \in FieldNames, value \in FieldValues :
           handlePaymentFieldChange(field, value)
    \/ cancelClicked
    \/ timerFired
    \/ handlePay
    \/ payResolvedTruthy
    \/ payResolvedFalsy
    \/ payRejected
    \/ mandatoryAlertClosed
    \/ successAlertClosed
    \/ processingAlertClosed

Spec == Init /\ [][Next]_vars

-----------------------------------------------------------------------------
(* Vocabulary of the properties *)

\* The Apex calls among the effects of the last run whose name is in `names`.
ApexCallsOf(fx, names) ==
    SelectSeq(fx, LAMBDA e : e.kind = "apex" /\ e.name \in names)

\* The last run invoked a payment procedure.
PayDispatched == ApexCallsOf(effects, PayMethods) # <<>>

\* One of the four form fields is empty.
AnyFieldEmpty == "" \in {paymentDate, bankAccount, exchangeRate, paymentReference}

\* Indices of the loaded invoices whose identifier is in the selection.
SelectedIdx ==
    { k \in DOMAIN invoiceRecords : invoiceRecords[k].Id \in Range(selectedRows) }

RECURSIVE SumOutstanding(_)
\* Sum, in cents, of the outstanding balances of the loaded invoices at the
\* indices S; an absent balance counts as 0.
SumOutstanding(S) ==
    IF S = {} THEN 0
    ELSE LET k == CHOOSE x \in S : TRUE
             b == invoiceRecords[k].balance
         IN (IF b = <<>> THEN 0 ELSE b[1]) + SumOutstanding(S \ {k})

IsDigit(c) == \E d \in 0..9 : DigitChars[d + 1] = c
DigitValue(c) == CHOOSE d \in 0..9 : DigitChars[d + 1] = c

RECURSIVE ParseDigits(_)
\* The number a sequence of digit characters writes.
ParseDigits(cs) ==
    IF cs = <<>> THEN 0
    ELSE 10 * ParseDigits(SubSeq(cs, 1, Len(cs) - 1)) + DigitValue(cs[Len(cs)])

\* t writes an amount with exactly two decimal digits: digits, ".", two digits.
TwoDecimals(t) ==
    /\ Len(t) >= 4
    /\ t[Len(t) - 2] = "."
    /\ \A k \in DOMAIN t : k # Len(t) - 2 => IsDigit(t[k])

\* The amount, in cents, that t writes.
CentsOf(t) ==
    100 * ParseDigits(SubSeq(t, 1, Len(t) - 3))
        + ParseDigits(SubSeq(t, Len(t) - 1, Len(t)))

\* The currency names the records of `recs` carry.
CurrencyNames(recs) ==
    { recs[k].currency[1] : k \in { j \in DOMAIN recs : recs[j].currency # <<>> } }

\* Every record of `recs` carries a currency.
AllHaveCurrency(recs) == \A k \in DOMAIN recs : recs[k].currency # <<>>

\* The payment procedure that matches the resolved invoice type.
MatchingPayMethod ==
    CASE invoiceType = "Purchase" -> "processPurchaseInvoiceBulkPayment"
      [] invoiceType = "Sales" -> "processSalesInvoiceBulkPayment"
      [] OTHER -> "none"

\* The list view handleCancel is to go to: that of the resolved object type,
\* and the hardcoded purchase-invoice list view when no type was resolved.
FallbackApiName == PurchaseApiName
ExpectedListView ==
    IF invoiceInfo.apiName # UndefinedName
    THEN ListViewUrl(invoiceInfo.apiName)
    ELSE ListViewUrl(FallbackApiName)

-----------------------------------------------------------------------------
(* Properties *)

\* C1: a run that starts with one of paymentDate, bankAccount, exchangeRate,
\* paymentReference empty (handlePay among them) invokes no payment
\* procedure, whatever loads, selection changes and edits came before.
C1_NoPayWithEmptyField ==
    [][AnyFieldEmpty => ~PayDispatched']_vars

\* C1 witness: handlePay has run with three fields filled, the reference
\* empty and invoices selected, and opened the validation alert.
C1_Witness ==
    /\ effects = <<Alert("Error", MsgMandatory, "error")>>
    /\ paymentDate = "x" /\ bankAccount = "x" /\ exchangeRate = "x"
    /\ paymentReference = ""
    /\ SelectedIdx # {}

\* C2: handlePay called with the four fields filled and at least one invoice
\* selected invokes the payment procedure that matches the invoice type,
\* once, with totalInvoiceAmount equal to the component's totalAmount at that
\* moment; and no run other than handlePay's first invokes a payment procedure.
C2_PayOnceWithCurrentTotal ==
    [][/\ (handlePay /\ ~AnyFieldEmpty /\ SelectedIdx # {}) =>
              /\ Len(effects') = 1
              /\ effects'[1].kind = "apex"
              /\ effects'[1].name = MatchingPayMethod
              /\ effects'[1].name \in PayMethods
              /\ effects'[1].params.totalInvoiceAmount = totalAmount'
              /\ totalAmount' = totalAmount
       /\ PayDispatched' => handlePay
      ]_vars

\* C2 witness: a payment was dispatched for a proper, non-empty part of the
\* loaded invoices, so that the total differs from the total of all of them.
C2_Witness ==
    /\ PayDispatched
    /\ SelectedIdx # {}
    /\ SelectedIdx # DOMAIN invoiceRecords
    /\ totalAmount # TotalAmountOf(invoiceRecords, MapId(invoiceRecords))

\* C3: handlePay invokes a payment procedure only with at least one invoice
\* selected: no request with an empty invoice list is dispatched.
C3_PayRequiresSelection ==
    \A k \in DOMAIN effects :
        (effects[k].kind = "apex" /\ effects[k].name \in PayMethods)
            => effects[k].params.headerList # <<>>

\* C4: in every reachable state totalAmount writes, with two decimal digits,
\* the sum of the outstanding balances of exactly the loaded invoices whose
\* identifier is selected (an absent balance counting 0), and is "0.00" when
\* nothing is selected.
C4_TotalAmount ==
    /\ TwoDecimals(totalAmount)
    /\ CentsOf(totalAmount) = SumOutstanding(SelectedIdx)
    /\ selectedRows = <<>> => totalAmount = <<"0", ".", "0", "0">>

\* C4 witness: invoices 1 and 2 are selected, 2 has no balance, 3 is loaded
\* and not selected; the total is "10.50".
C4_Witness ==
    /\ Len(invoiceRecords) = 3
    /\ Range(selectedRows) = {1, 2}
    /\ invoiceRecords[2].balance = <<>>
    /\ totalAmount = <<"1", "0", ".", "5", "0">>

\* C5: the run in which the invoice fetch resolves leaves selectedRows the
\* identifiers of the returned records, each once and nothing else.
C5_FullPreselection ==
    [][loadResult' # loadResult =>
          /\ Range(selectedRows') = { loadResult'[1][k].Id : k \in DOMAIN loadResult'[1] }
          /\ Len(selectedRows') = Len(loadResult'[1])
      ]_vars

\* C5 witness: a fetch that returned two invoices has just resolved and both
\* are selected.
C5_Witness ==
    /\ loadResult # <<>>
    /\ Len(loadResult[1]) = 2
    /\ loadPc = "done"
    /\ effects = <<>>
    /\ Range(selectedRows) = { loadResult[1][k].Id : k \in DOMAIN loadResult[1] }

\* C6: a fetch that resolves with records of one currency opens no alert and
\* sets no timer; one that resolves with records of more than one currency
\* opens the 'same Currency' error alert, and after the alert is closed the
\* navigation to the list view is performed.
C6_CurrencyPaths ==
    [][/\ (/\ loadResult' # loadResult /\ AllHaveCurrency(loadResult'[1])
           /\ Cardinality(CurrencyNames(loadResult'[1])) = 1) =>
              /\ effects' = <<>>
              /\ timers' = timers
              /\ loadPc' = "done"
       /\ (/\ loadResult' # loadResult /\ AllHaveCurrency(loadResult'[1])
           /\ Cardinality(CurrencyNames(loadResult'[1])) > 1) =>
              /\ effects' = <<Alert("Error", MsgCurrency, "error")>>
              /\ loadPc' = "alertCurrency"
       /\ currencyAlertClosed => timers' = Append(timers, "currency")
       /\ (timerFired /\ Head(timers) = "currency") =>
              /\ effects' = <<Navigate(ListViewUrl(invoiceInfo.apiName))>>
              /\ nav' = <<ListViewUrl(invoiceInfo.apiName)>>
      ]_vars

\* C7: a fetch that resolves with no record opens the 'Select Invoices with
\* Outstanding Balance' error alert once; after the alert is closed no
\* currency alert opens and the navigation to the list view is performed.
C7_NoInvoicesPath ==
    [][/\ (loadResult' # loadResult /\ loadResult'[1] = <<>>) =>
              /\ effects' = <<Alert("Error", MsgNoInvoices, "error")>>
              /\ loadPc' = "alertNoInvoices"
       /\ noInvoicesAlertClosed =>
              /\ effects' = <<>>
              /\ loadPc' = "done"
              /\ timers' = Append(timers, "noInvoices")
       /\ (timerFired /\ Head(timers) = "noInvoices") =>
              /\ effects' = <<Navigate(ListViewUrl(invoiceInfo.apiName))>>
              /\ nav' = <<ListViewUrl(invoiceInfo.apiName)>>
      ]_vars

\* C8: every call of handleCancel performs exactly one window.location.replace:
\* to the list view of the resolved object type, and to the hardcoded
\* fallback list view when no type was resolved.
C8_CancelNavigatesOnce ==
    [][(cancelClicked \/ timerFired) =>
          /\ effects' = <<Navigate(ExpectedListView)>>
          /\ nav' = Append(nav, ExpectedListView)
      ]_vars

\* C9: started without record identifiers, connectedCallback opens the error
\* alert, the navigation back follows, and no run ever invokes an Apex
\* method: not getBankAccounts, not getInvoiceType, not a fetch.
C9_NoIdsNoLoad ==
    [][recordIds = <<>> =>
          /\ \A k \in DOMAIN effects' : effects'[k].kind # "apex"
          /\ connectedCallback =>
                 effects' = <<Alert("Error", MsgNoInvoices, "error")>>
          /\ timerFired => effects'[1].kind = "navigate"
      ]_vars

\* C10: when the payment procedure returns, a truthy result opens the success
\* alert and the navigation back follows its closing; a falsy result, like a
\* rejection, opens the processing-error alert, sets no timer, navigates
\* nowhere and leaves the form fields and the selection as they were.
C10_PayResults ==
    [][/\ payResolvedTruthy => effects' = <<Alert("Success", MsgSuccess, "success")>>
       /\ successAlertClosed => timers' = Append(timers, "success")
       /\ (timerFired /\ Head(timers) = "success") => effects'[1].kind = "navigate"
       /\ (payResolvedFalsy \/ payRejected) =>
              /\ effects' = <<Alert("Error", MsgProcessing, "error")>>
              /\ timers' = timers
              /\ nav' = nav
              /\ UNCHANGED <<formVars, selectedRows>>
      ]_vars

\* C11: in every reachable state, whatever loads and selection changes came
\* before, every identifier in selectedRows is the Id of a record of
\* invoiceRecords.
C11_SelectionWithinLoaded ==
    Range(selectedRows) \subseteq Range(MapId(invoiceRecords))

\* C11 witness: three invoices are loaded and a selection change has left
\* only the second of them selected.
C11_Witness ==
    /\ Len(invoiceRecords) = 3
    /\ loadPc = "done"
    /\ Range(selectedRows) = {invoiceRecords[2].Id}

\* C12: no payment request carries invoices of more than one currency: once
\* a fetch has returned records of more than one currency, no handlePay
\* dispatches them.
C12_SingleCurrencyRequests ==
    \A k \in DOMAIN effects :
        (effects[k].kind = "apex" /\ effects[k].name \in PayMethods)
            => Cardinality(CurrencyNames(effects[k].params.headerList)) <= 1

\* C13: at most one payment request is in flight at any time: while a
\* request of handlePay is outstanding, a further handlePay issues none.
C13_OneRequestInFlight ==
    payThreads["awaitResult"] <= 1

\* C14: the run of handlePay that issues the payment request has set
\* isLoading, and every run in which a handlePay call ends leaves isLoading
\* clear: after the validation alert, after the success alert of a truthy
\* result, on a falsy result, and after the error alert of a thrown failure.
C14_BusyFlag ==
    [][/\ handlePay => isLoading'
       /\ PayDispatched' => isLoading'
       /\ (\/ mandatoryAlertClosed \/ successAlertClosed
           \/ payResolvedFalsy \/ processingAlertClosed) => ~isLoading'
      ]_vars

\* C14 witness: a handlePay call that issued its request and got a truthy
\* result has ended (the timer of its success alert is pending), no call is
\* suspended and isLoading is clear.
C14_Witness ==
    /\ "success" \in Range(timers)
    /\ Suspended = 0
    /\ ~isLoading
    /\ effects = <<>>

\* C15: an invoice fetch is invoked only by the run in which type resolution
\* returns, with the batch classified Purchase or Sales, and it is the fetch
\* of that type; when the returned API name matches neither token the type
\* stays unset, no Apex method is invoked, and isLoading is not set, so that
\* it is clear whenever no handlePay call is suspended.
C15_FetchAfterTypeResolution ==
    [][/\ ApexCallsOf(effects', FetchMethods) # <<>> =>
              /\ \E apiName \in ApiNames : getInvoiceTypeThen(apiName)
              /\ invoiceType' \in {"Purchase", "Sales"}
              /\ ApexCallsOf(effects', FetchMethods) = effects'
              /\ Len(effects') = 1
              /\ effects'[1].name = IF invoiceType' = "Purchase"
                                    THEN "getPurchaseInvoiceDetails"
                                    ELSE "getSalesInvoiceDetails"
       /\ getInvoiceTypeThen(OtherApiName) =>
              /\ invoiceType' = ""
              /\ effects' = <<>>
              /\ isLoading' = isLoading
       /\ (invoiceInfo'.apiName = OtherApiName /\ Suspended' = 0) => ~isLoading'
       /\ invoiceInfo'.apiName = OtherApiName => loadResult' = <<>>
      ]_vars

\* C15 witness: type resolution returned an API name that is neither a
\* purchase nor a sales invoice; the type is unset, no fetch was issued and
\* isLoading is clear.
C15_Witness ==
    /\ invoiceInfo.apiName = OtherApiName
    /\ invoiceType = ""
    /\ loadPc = "skipped"
    /\ ~isLoading
    /\ effects = <<>>

\* C16: the run in which the invoice load fails (the fetch rejects, or the
\* handling of its result throws) leaves isLoading clear and invoiceRecords
\* and selectedRows empty, opens no alert and sets no timer for the
\* navigation back.
C16_FailedLoadLeavesNothing ==
    [][(loadInvoiceDetailsCatch \/ (loadPc # "threw" /\ loadPc' = "threw")) =>
          /\ ~isLoading'
          /\ invoiceRecords' = <<>>
          /\ selectedRows' = <<>>
          /\ effects' = <<>>
          /\ timers' = timers
      ]_vars

====
